---- MODULE Spec2Model ----
(***************************************************************************)
(* A model of the two notebooks of the repository: the agent-graph         *)
(* notebook (messages, the add tool, the add_messages reducer, the two     *)
(* compiled graphs) and the Pydantic notebook (Room, Car, Employee,        *)
(* UserProfile, the nested Address / Company / Employee schemas).          *)
(*                                                                         *)
(* The notebooks call into pydantic, langgraph and langchain.  A call is   *)
(* modelled by what the library does at that call: lax-mode validation     *)
(* with field constraints before "after" validators for BaseModel, merge   *)
(* by message id for add_messages, routing on the last message's           *)
(* tool_calls for tools_condition, one ToolMessage per call for ToolNode.  *)
(***************************************************************************)
EXTENDS Integers, Sequences, FiniteSets, TLC

VARIABLES
    \* a constructor call of the Pydantic notebook
    call,       \* the constructor call being evaluated: class and arguments
    outcome,    \* what the call produced: an instance or the raised exception
    \* an update of the messages of a state
    schema,     \* the state schema: State (add_messages) or state (no reducer)
    left,       \* the existing list of messages
    right,      \* the update
    merged,     \* what add_messages(left, right) returned
    \* one invocation of a compiled graph
    invoked,    \* which compiled graph is invoked, and on which input
    node,       \* the node that runs next: "START" before the input is read
    state,      \* the graph's State: its messages channel
    uuids,      \* how many message ids have been generated in this run
    visited,    \* the nodes that have run, in order
    executed,   \* the calls of tool functions that have run, in order
    prompts,    \* the message lists the model has been called with, in order
    \* a kernel session of one of the two notebooks
    kernel,     \* which notebook the kernel runs
    ns,         \* the kernel's namespace: what each global name is bound to
    fresh,      \* how many message ids the session has generated
    pc,         \* how many cells have been run, top to bottom
    first,      \* for each cell, what it did the first time it was run
    seen,       \* for each cell, what the names it reads held at that time
    rerun,      \* the latest re-run of a cell: what it read and what it did
    reruns      \* how many times a cell has been re-run

varsValidate == <<call, outcome>>
varsReducer == <<schema, left, right, merged>>
varsGraph == <<invoked, node, state, uuids, visited, executed, prompts>>
varsNotebook == <<kernel, ns, fresh, pc, first, seen, rerun, reruns>>
vars == <<call, outcome, schema, left, right, merged,
          invoked, node, state, uuids, visited, executed, prompts,
          kernel, ns, fresh, pc, first, seen, rerun, reruns>>

(***************************************************************************)
(* Bounds of the checked input space.                                      *)
(***************************************************************************)
\* how far, on each side of a length or numeric limit, the inputs reach
Slack == 1
\* longest e-mail string enumerated exhaustively over EmailAlphabet
MaxEmailLen == 5
\* longest list of messages given to add_messages, as left and as right
MaxMessages == 2
\* largest message id given by the caller; larger ids are generated ones
MaxGivenId == 2
\* most re-runs of cells in one kernel session
MaxReruns == 2
\* most tool calls in one reply of the model
MaxToolCalls == 2
\* the model asks for tool arguments in -MaxArg..MaxArg
MaxArg == 1

(***************************************************************************)
(* Python values.  Every value is a record of one shape: t is the Python   *)
(* type, n the integer (or the integral part of a float, or 0/1 of a       *)
(* bool), d the tenths of a float, s the characters of a str, items the    *)
(* elements of a list.                                                     *)
(***************************************************************************)
Scalar(t, n, d, s) == [t |-> t, n |-> n, d |-> d, s |-> s, items |-> <<>>]
PyStr(s) == Scalar("str", 0, 0, s)
PyInt(n) == Scalar("int", n, 0, <<>>)
PyFloat(n, d) == Scalar("float", n, d, <<>>)
PyBool(b) == Scalar("bool", IF b THEN 1 ELSE 0, 0, <<>>)
PyNone == Scalar("none", 0, 0, <<>>)
PyList(xs) == [t |-> "list", n |-> 0, d |-> 0, s |-> <<>>, items |-> xs]
\* an argument that the call does not pass (pydantic's PydanticUndefined)
MISSING == Scalar("missing", 0, 0, <<>>)

\* a str of k copies of the character c
Pad(c, k) == [i \in 1..k |-> c]

Digits == <<"0", "1", "2", "3", "4", "5", "6", "7", "8", "9">>
Letters ==
    {"a", "b", "c", "d", "e", "f", "g", "h", "i", "j", "k", "l", "m",
     "n", "o", "p", "q", "r", "s", "t", "u", "v", "w", "x", "y", "z",
     "A", "B", "C", "D", "E", "F", "G", "H", "I", "J", "K", "L", "M",
     "N", "O", "P", "Q", "R", "S", "T", "U", "V", "W", "X", "Y", "Z"}
DigitChars == {Digits[i] : i \in 1..10}

\* str.isalnum(): at least one character and every character a letter or digit
isalnum(s) == Len(s) > 0 /\ \A i \in 1..Len(s) : s[i] \in Letters \cup DigitChars

\* the piece [^@]+ of the pattern matching exactly s[i..j]
NoAtRun(s, i, j) == i <= j /\ \A k \in i..j : s[k] # "@"

\* re.match(r'^[^@]+@[^@]+\.[^@]+$', v): some '@' at a and some '.' at p split
\* the string into three non-empty runs without '@'
re_match_email(s) ==
    \E a \in 1..Len(s), p \in 1..Len(s) :
        /\ a < p
        /\ s[a] = "@"
        /\ s[p] = "."
        /\ NoAtRun(s, 1, a - 1)
        /\ NoAtRun(s, a + 1, p - 1)
        /\ NoAtRun(s, p + 1, Len(s))

\* the value of a str of decimal digits
RECURSIVE DigitsValue(_)
DigitsValue(s) ==
    IF s = <<>> THEN 0
    ELSE LET last == CHOOSE k \in 0..9 : Digits[k + 1] = s[Len(s)]
         IN  10 * DigitsValue(SubSeq(s, 1, Len(s) - 1)) + last
IsDigits(s) == Len(s) > 0 /\ \A i \in 1..Len(s) : s[i] \in DigitChars

(***************************************************************************)
(* pydantic-core validators in lax mode.  Each returns [ok, value, errs,   *)
(* ran]: the coerced value, or the error lines (location relative to the   *)
(* validated value, error type, offending input); ran is the set of        *)
(* user-written validator functions that were called.                      *)
(***************************************************************************)
Valid(v) == [ok |-> TRUE, value |-> v, errs |-> <<>>, ran |-> {}]
Invalid(ty, v) ==
    [ok |-> FALSE, value |-> PyNone,
     errs |-> <<[loc |-> <<>>, type |-> ty, input |-> v]>>, ran |-> {}]

\* a keyword argument of a call, or a key of a dict: MISSING when absent
Arg(kw, k) == IF k \in DOMAIN kw THEN kw[k] ELSE MISSING

\* str_validator with the lower bound taken as exclusive
str_validator_ExclusiveMin(v, lo, hi) ==
    IF v.t = "missing" THEN Invalid("missing", v)
    ELSE IF v.t # "str" THEN Invalid("string_type", v)
    ELSE IF Len(v.s) <= lo /\ lo > 0 THEN Invalid("string_too_short", v)
    ELSE IF hi >= 0 /\ Len(v.s) > hi THEN Invalid("string_too_long", v)
    ELSE Valid(v)

\* str, with Field(min_length=, max_length=); hi = -1 stands for no max_length
str_validator(v, lo, hi) ==
    IF v.t = "missing" THEN Invalid("missing", v)
    ELSE IF v.t # "str" THEN Invalid("string_type", v)
    ELSE IF Len(v.s) < lo THEN Invalid("string_too_short", v)
    ELSE IF hi >= 0 /\ Len(v.s) > hi THEN Invalid("string_too_long", v)
    ELSE Valid(v)

\* the coercion of a value to int ("42" -> 42, 42.0 -> 42)
int_validator(v) ==
    IF v.t = "missing" THEN Invalid("missing", v)
    ELSE IF v.t = "int" \/ v.t = "bool" THEN Valid(PyInt(v.n))
    ELSE IF v.t = "float" THEN
        (IF v.d = 0 THEN Valid(PyInt(v.n)) ELSE Invalid("int_from_float", v))
    ELSE IF v.t = "str" THEN
        (IF IsDigits(v.s) THEN Valid(PyInt(DigitsValue(v.s)))
         ELSE Invalid("int_parsing", v))
    ELSE Invalid("int_type", v)

\* int, with Field(ge=, le=): the bounds are checked on the coerced value
int_range_validator(v, ge, le) ==
    LET c == int_validator(v)
    IN  IF ~c.ok THEN c
        ELSE IF c.value.n > le THEN Invalid("less_than_equal", v)
        ELSE IF c.value.n < ge THEN Invalid("greater_than_equal", v)
        ELSE c

\* float (30000 -> 30000.0)
float_validator(v) ==
    IF v.t = "missing" THEN Invalid("missing", v)
    ELSE IF v.t = "float" THEN Valid(v)
    ELSE IF v.t = "int" \/ v.t = "bool" THEN Valid(PyFloat(v.n, 0))
    ELSE IF v.t = "str" THEN
        (IF IsDigits(v.s) THEN Valid(PyFloat(DigitsValue(v.s), 0))
         ELSE Invalid("float_parsing", v))
    ELSE Invalid("float_type", v)

\* bool (0, 1, "0", "1" are accepted in lax mode)
bool_validator(v) ==
    IF v.t = "missing" THEN Invalid("missing", v)
    ELSE IF v.t = "bool" THEN Valid(v)
    ELSE IF v.t = "int" THEN
        (IF v.n \in {0, 1} THEN Valid(PyBool(v.n = 1)) ELSE Invalid("bool_parsing", v))
    ELSE IF v.t = "float" THEN
        (IF v.n \in {0, 1} /\ v.d = 0 THEN Valid(PyBool(v.n = 1))
         ELSE Invalid("bool_parsing", v))
    ELSE IF v.t = "str" THEN
        (IF v.s \in {<<"0">>, <<"1">>} THEN Valid(PyBool(v.s = <<"1">>))
         ELSE Invalid("bool_parsing", v))
    ELSE Invalid("bool_type", v)

\* List[str]
list_str_validator(v) ==
    IF v.t = "missing" THEN Invalid("missing", v)
    ELSE IF v.t # "list" THEN Invalid("list_type", v)
    ELSE IF \E i \in 1..Len(v.items) : v.items[i].t # "str"
        THEN Invalid("string_type", v)
    ELSE Valid(v)

\* Optional[X]: None is valid as it is, anything else is validated as X
Optional(v, r) == IF v.t = "none" THEN Valid(v) ELSE r

\* a field with a default: the default is taken, unvalidated, when no value is given
WithDefault(v, dflt, r) == IF v.t = "missing" THEN Valid(dflt) ELSE r

\* @field_validator(...), mode "after": the function is called with the value
\* the field's own schema produced, and only when that schema accepted it;
\* after is what the function makes of that value
WithAfter(core, name, after) ==
    IF core.ok THEN [after EXCEPT !.ran = {name}] ELSE core

\* the error lines of one field, located under the field's name
FieldErrors(name, r) ==
    [i \in 1..Len(r.errs) |-> [r.errs[i] EXCEPT !.loc = <<name>> \o @]]

\* what a constructor call produces: an instance, or one raised exception
\* that carries all the error lines
Raised(exc, lines, ran) ==
    [status |-> exc, errors |-> lines, instance |-> <<>>, ran |-> ran]
Built(inst, ran) ==
    [status |-> "ok", errors |-> <<>>, instance |-> inst, ran |-> ran]
\* an instance of class cls with the given attributes
Instance(cls, attrs) == [t |-> cls, f |-> attrs]
\* a dict literal: the keys given MISSING are left out
Dict(kw) == [t |-> "dict", kw |-> [k \in {x \in DOMAIN kw : kw[x].t # "missing"} |-> kw[k]]]

\* model_validator that stores a dict as it is, without validating it as cls
model_validator_NoRecursion(cls, v, o) ==
    IF v.t = "missing" THEN Invalid("missing", v)
    ELSE IF v.t = cls \/ v.t = "dict" THEN Valid(v)
    ELSE Invalid("model_type", v)

\* the keys of a dict, as keyword arguments
KwOf(v) == IF v.t = "dict" THEN v.kw ELSE <<>>

\* a field whose type is a BaseModel class: an instance is taken as it is, a
\* dict is validated as the class's keyword arguments (o is what the class
\* makes of them), anything else is refused
model_validator(cls, v, o) ==
    IF v.t = "missing" THEN Invalid("missing", v)
    ELSE IF v.t = cls THEN Valid(v)
    ELSE IF v.t = "dict" THEN
        [ok |-> o.status = "ok",
         value |-> IF o.status = "ok" THEN o.instance ELSE PyNone,
         errs |-> o.errors, ran |-> o.ran]
    ELSE Invalid("model_type", v)
Pending == [status |-> "pending", errors |-> <<>>, instance |-> <<>>, ran |-> {}]

(***************************************************************************)
(* UserProfile (pydantic.ipynb, the cell of lines 294-324)                 *)
(***************************************************************************)
username_min_length == 3
username_max_length == 20
password_min_length == 8
age_ge == 13
age_le == 120

\* def validate_email(cls, v): raises ValueError unless the pattern matches
validate_email(v) ==
    IF ~re_match_email(v.s) THEN Invalid("value_error", v) ELSE Valid(v)

\* def validate_username(cls, v): raises ValueError unless v.isalnum()
validate_username(v) ==
    IF ~isalnum(v.s) THEN Invalid("value_error", v) ELSE Valid(v)

\* username_field with validate_username called whatever the length check found
username_field_ValidatorAlways(v) ==
    LET core == str_validator(v, username_min_length, username_max_length)
        fn == IF v.t = "str" THEN validate_username(v) ELSE Valid(v)
    IN  [ok |-> core.ok /\ fn.ok, value |-> core.value,
         errs |-> core.errs \o fn.errs,
         ran |-> IF v.t = "str" THEN {"validate_username"} ELSE {}]

username_field(v) ==
    LET core == str_validator(v, username_min_length, username_max_length)
    IN  WithAfter(core, "validate_username", validate_username(core.value))
email_field(v) ==
    LET core == str_validator(v, 0, -1)
    IN  WithAfter(core, "validate_email", validate_email(core.value))
password_field(v) == str_validator(v, password_min_length, -1)
age_field(v) == int_range_validator(v, age_ge, age_le)

\* UserProfile raising as soon as one field is found invalid
UserProfile_StopAtFirst(kw) ==
    LET u == username_field(Arg(kw, "username"))
        e == email_field(Arg(kw, "email"))
        p == password_field(Arg(kw, "password"))
        a == age_field(Arg(kw, "age"))
        lines == FieldErrors("username", u) \o FieldErrors("email", e)
                 \o FieldErrors("password", p) \o FieldErrors("age", a)
    IN  IF lines = <<>>
        THEN Built(Instance("UserProfile",
                            [username |-> u.value, email |-> e.value,
                             password |-> p.value, age |-> a.value]),
                   u.ran \cup e.ran)
        ELSE Raised("ValidationError", <<lines[1]>>, u.ran)

\* UserProfile(**kw): every field is validated, in declaration order, and the
\* error lines of all of them are raised together as one ValidationError
UserProfile(kw) ==
    LET u == username_field(Arg(kw, "username"))
        e == email_field(Arg(kw, "email"))
        p == password_field(Arg(kw, "password"))
        a == age_field(Arg(kw, "age"))
        lines == FieldErrors("username", u) \o FieldErrors("email", e)
                 \o FieldErrors("password", p) \o FieldErrors("age", a)
        ran == u.ran \cup e.ran \cup p.ran \cup a.ran
    IN  IF lines = <<>>
        THEN Built(Instance("UserProfile",
                            [username |-> u.value, email |-> e.value,
                             password |-> p.value, age |-> a.value]), ran)
        ELSE Raised("ValidationError", lines, ran)

(***************************************************************************)
(* Room, a plain dataclass, and Car, a BaseModel with fields of the same   *)
(* types (pydantic.ipynb, lines 77-86 and 22-27)                           *)
(***************************************************************************)
\* Room with its arguments checked against the annotations, as a BaseModel does
Room_Validating(kw) ==
    LET a == str_validator(Arg(kw, "names"), 0, -1)
        b == int_validator(Arg(kw, "no_of_people"))
        c == str_validator(Arg(kw, "city"), 0, -1)
    IN  IF a.ok /\ b.ok /\ c.ok
        THEN Built(Instance("Room", [names |-> a.value, no_of_people |-> b.value,
                                     city |-> c.value]), {})
        ELSE Raised("TypeError", <<>>, {})

\* the generated __init__(self, names, no_of_people, city) assigns its
\* arguments; the only failure is Python's TypeError for an argument not passed
Room(kw) ==
    IF \E k \in {"names", "no_of_people", "city"} : Arg(kw, k).t = "missing"
    THEN Raised("TypeError", <<>>, {})
    ELSE Built(Instance("Room",
                        [names |-> kw.names, no_of_people |-> kw.no_of_people,
                         city |-> kw.city]), {})

Car(kw) ==
    LET b == str_validator(Arg(kw, "brand"), 0, -1)
        p == int_validator(Arg(kw, "price"))
        c == str_validator(Arg(kw, "country"), 0, -1)
        lines == FieldErrors("brand", b) \o FieldErrors("price", p)
                 \o FieldErrors("country", c)
    IN  IF lines = <<>>
        THEN Built(Instance("Car", [brand |-> b.value, price |-> p.value,
                                    country |-> c.value]), {})
        ELSE Raised("ValidationError", lines, {})

(***************************************************************************)
(* The first Employee (pydantic.ipynb, lines 142-147)                      *)
(***************************************************************************)
\* Employee1 with a value given for an optional field stored unvalidated
Employee1_OptionalUnchecked(kw) ==
    LET i == int_validator(Arg(kw, "id"))
        n == str_validator(Arg(kw, "name"), 0, -1)
        d == str_validator(Arg(kw, "department"), 0, -1)
        s == WithDefault(Arg(kw, "salary"), PyNone, Valid(Arg(kw, "salary")))
        a == WithDefault(Arg(kw, "is_active"), PyBool(TRUE), Valid(Arg(kw, "is_active")))
        lines == FieldErrors("id", i) \o FieldErrors("name", n)
                 \o FieldErrors("department", d)
    IN  IF lines = <<>>
        THEN Built(Instance("Employee",
                            [id |-> i.value, name |-> n.value, department |-> d.value,
                             salary |-> s.value, is_active |-> a.value]), {})
        ELSE Raised("ValidationError", lines, {})

Employee1(kw) ==
    LET i == int_validator(Arg(kw, "id"))
        n == str_validator(Arg(kw, "name"), 0, -1)
        d == str_validator(Arg(kw, "department"), 0, -1)
        s == WithDefault(Arg(kw, "salary"), PyNone,
                         Optional(Arg(kw, "salary"), float_validator(Arg(kw, "salary"))))
        a == WithDefault(Arg(kw, "is_active"), PyBool(TRUE),
                         Optional(Arg(kw, "is_active"),
                                  bool_validator(Arg(kw, "is_active"))))
        lines == FieldErrors("id", i) \o FieldErrors("name", n)
                 \o FieldErrors("department", d) \o FieldErrors("salary", s)
                 \o FieldErrors("is_active", a)
    IN  IF lines = <<>>
        THEN Built(Instance("Employee",
                            [id |-> i.value, name |-> n.value, department |-> d.value,
                             salary |-> s.value, is_active |-> a.value]), {})
        ELSE Raised("ValidationError", lines, {})

(***************************************************************************)
(* Address, Company and the second Employee (pydantic.ipynb, 335-351)      *)
(***************************************************************************)
Address(kw) ==
    LET s == str_validator(Arg(kw, "street"), 0, -1)
        c == str_validator(Arg(kw, "city"), 0, -1)
        n == str_validator(Arg(kw, "country"), 0, -1)
        z == str_validator(Arg(kw, "zip_code"), 0, -1)
        lines == FieldErrors("street", s) \o FieldErrors("city", c)
                 \o FieldErrors("country", n) \o FieldErrors("zip_code", z)
    IN  IF lines = <<>>
        THEN Built(Instance("Address",
                            [street |-> s.value, city |-> c.value,
                             country |-> n.value, zip_code |-> z.value]), {})
        ELSE Raised("ValidationError", lines, {})

Company(kw) ==
    LET n == str_validator(Arg(kw, "name"), 0, -1)
        a == model_validator("Address", Arg(kw, "address"),
                             Address(KwOf(Arg(kw, "address"))))
        e == list_str_validator(Arg(kw, "employees"))
        lines == FieldErrors("name", n) \o FieldErrors("address", a)
                 \o FieldErrors("employees", e)
    IN  IF lines = <<>>
        THEN Built(Instance("Company",
                            [name |-> n.value, address |-> a.value,
                             employees |-> e.value]), {})
        ELSE Raised("ValidationError", lines, {})

Employee2(kw) ==
    LET n == str_validator(Arg(kw, "name"), 0, -1)
        p == str_validator(Arg(kw, "position"), 0, -1)
        s == float_validator(Arg(kw, "salary"))
        c == model_validator("Company", Arg(kw, "company"),
                             Company(KwOf(Arg(kw, "company"))))
        h == WithDefault(Arg(kw, "home_address"), PyNone,
                 Optional(Arg(kw, "home_address"),
                          model_validator("Address", Arg(kw, "home_address"),
                                          Address(KwOf(Arg(kw, "home_address"))))))
        lines == FieldErrors("name", n) \o FieldErrors("position", p)
                 \o FieldErrors("salary", s) \o FieldErrors("company", c)
                 \o FieldErrors("home_address", h)
    IN  IF lines = <<>>
        THEN Built(Instance("Employee",
                            [name |-> n.value, position |-> p.value, salary |-> s.value,
                             company |-> c.value, home_address |-> h.value]), {})
        ELSE Raised("ValidationError", lines, {})

(***************************************************************************)
(* Messages (langchain_core.messages) and the add_messages reducer         *)
(* (langgraph.graph.message), as the agent notebook uses them.             *)
(* A message is a record of one shape; id 0 is id=None.                    *)
(***************************************************************************)
Message(type, id, content, tool_calls, tool_call_id, status) ==
    [type |-> type, id |-> id, content |-> content, tool_calls |-> tool_calls,
     tool_call_id |-> tool_call_id, status |-> status]
HumanMessage(content, id) == Message("human", id, content, <<>>, 0, "")
AIMessage(content, id, tool_calls) == Message("ai", id, content, tool_calls, 0, "")
ToolMessage(content, id, tool_call_id, status) ==
    Message("tool", id, content, <<>>, tool_call_id, status)
RemoveMessage(id) == Message("remove", id, <<>>, <<>>, 0, "")

\* what a caller may pass where messages are expected: a list of messages,
\* one message, or a str
Listed(ms) == [kind |-> "list", ms |-> ms, s |-> <<>>]
Single(m) == [kind |-> "message", ms |-> <<m>>, s |-> <<>>]
Text(s) == [kind |-> "str", ms |-> <<>>, s |-> s]

\* convert_to_messages: one message becomes a list of one, a str a HumanMessage
convert_to_messages(x) ==
    IF x.kind = "str" THEN <<HumanMessage(x.s, 0)>> ELSE x.ms

\* "if m.id is None: m.id = str(uuid.uuid4())": generated ids lie above every
\* given id and above the `made` ids generated before
AssignIds(ms, made) ==
    [i \in 1..Len(ms) |->
        IF ms[i].id = 0
        THEN [ms[i] EXCEPT !.id = MaxGivenId + made
                                    + Cardinality({j \in 1..i : ms[j].id = 0})]
        ELSE ms[i]]
MissingIds(ms) == Cardinality({j \in 1..Len(ms) : ms[j].id = 0})

Max(S) == CHOOSE x \in S : \A y \in S : y <= x

\* one turn of "for m in right": a message whose id is already in merged
\* replaces that message in place (a RemoveMessage marks it for removal), any
\* other message is appended (a RemoveMessage raises ValueError)
MergeOne(acc, m) ==
    LET at == {i \in 1..Len(acc.merged) : acc.merged[i].id = m.id}
    IN  IF at # {}
        THEN IF m.type = "remove"
             THEN [acc EXCEPT !.remove = @ \cup {m.id}]
             ELSE [acc EXCEPT !.remove = @ \ {m.id}, !.merged[Max(at)] = m]
        ELSE IF m.type = "remove"
             THEN [acc EXCEPT !.error = TRUE]
             ELSE [acc EXCEPT !.merged = Append(@, m)]

RECURSIVE MergeAll(_, _)
MergeAll(acc, rest) ==
    IF rest = <<>> \/ acc.error THEN acc
    ELSE MergeAll(MergeOne(acc, Head(rest)), Tail(rest))

\* add_messages with no reducer semantics at all: the update replaces the list
add_messages_Override(l, r, made) ==
    [status |-> "ok", messages |-> AssignIds(convert_to_messages(r), made),
     made |-> made + MissingIds(convert_to_messages(r))]

\* add_messages(left, right): both are made lists of messages, messages
\* without an id get one, and right is merged into left by id.  `made` counts
\* the ids generated so far; the result carries the new count.
add_messages(l, r, made) ==
    LET ls == AssignIds(convert_to_messages(l), made)
        rs == AssignIds(convert_to_messages(r),
                        made + MissingIds(convert_to_messages(l)))
        acc == MergeAll([merged |-> ls, remove |-> {}, error |-> FALSE], rs)
        made2 == made + MissingIds(convert_to_messages(l))
                      + MissingIds(convert_to_messages(r))
    IN  IF acc.error
        THEN [status |-> "ValueError", messages |-> <<>>, made |-> made2]
        ELSE [status |-> "ok",
              messages |-> SelectSeq(acc.merged, LAMBDA m : m.id \notin acc.remove),
              made |-> made2]

NotReduced == [status |-> "pending", messages |-> <<>>, made |-> 0]
ReducerIdle ==
    /\ schema = "none" /\ left = Listed(<<>>) /\ right = Listed(<<>>)
    /\ merged = NotReduced

\* a key without a reducer that keeps the earlier value and adds the update
LastValue_Appends(l, r) ==
    [status |-> "ok", messages |-> l.ms \o r.ms, made |-> 0]

\* a key declared without a reducer (class state, message:list[AnyMessage])
\* is a last-value channel: the value a node returns is stored as it is
LastValue(l, r) == [status |-> "ok", messages |-> r.ms, made |-> 0]

(***************************************************************************)
(* The tool, the model bound to it, and the two compiled graphs of the     *)
(* agent notebook.                                                         *)
(***************************************************************************)
RECURSIVE str_nat(_)
str_nat(n) == IF n < 10 THEN <<Digits[n + 1]>>
              ELSE str_nat(n \div 10) \o <<Digits[(n % 10) + 1]>>
\* str(n) of a Python int
str_int(n) == IF n < 0 THEN <<"-">> \o str_nat(0 - n) ELSE str_nat(n)

\* def add(a: int, b: int) -> int: return a+b
add(a, b) == a + b

\* tools=[add]: the tools the tools node holds, by name
tools == {"add"}
\* llm.bind_tools([add]): the tools the model is told about
bound_tools == {"add"}

\* a tool call of a reply: {'name': .., 'args': {'a': .., 'b': ..}, 'id': ..}
ToolCall(name, a, b, id) == [name |-> name, a |-> a, b |-> b, id |-> id]

\* a ToolNode that runs whatever function a call names
ToolNode_AnyName(calls) ==
    [i \in 1..Len(calls) |->
        ToolMessage(str_int(add(calls[i].a, calls[i].b)), 0, calls[i].id, "success")]

lit_not_a_tool == <<"E", "r", "r", "o", "r">>

\* a ToolNode that answers every call under the id of the first call
ToolNode_FirstCallId(calls) ==
    [i \in 1..Len(calls) |->
        IF calls[i].name \in tools
        THEN ToolMessage(str_int(add(calls[i].a, calls[i].b)), 0, calls[1].id, "success")
        ELSE ToolMessage(lit_not_a_tool, 0, calls[1].id, "error")]

\* ToolNode(tools) on the tool calls of the last message: one ToolMessage per
\* call, in order, carrying str() of what the tool returned; a call that names
\* no tool of the node is answered with an error message and runs nothing
ToolNode(calls) ==
    [i \in 1..Len(calls) |->
        IF calls[i].name \in tools
        THEN ToolMessage(str_int(add(calls[i].a, calls[i].b)), 0, calls[i].id, "success")
        ELSE ToolMessage(lit_not_a_tool, 0, calls[i].id, "error")]

\* the tool functions ToolNode(tools) calls while doing so
Invocations(calls) ==
    LET ran == SelectSeq(calls, LAMBDA c : c.name \in tools)
    IN  [i \in 1..Len(ran) |->
            [name |-> ran[i].name, a |-> ran[i].a, b |-> ran[i].b,
             returned |-> add(ran[i].a, ran[i].b)]]

\* a routing step that always goes to the tools node
tools_condition_Always(messages) == "tools"

\* tools_condition: "tools" if the last message is an AI message with tool
\* calls, END otherwise
tools_condition(messages) ==
    IF /\ messages # <<>>
       /\ messages[Len(messages)].type = "ai"
       /\ messages[Len(messages)].tool_calls # <<>>
    THEN "tools" ELSE "END"

\* a wiring in which the tool results go back to the model
NextNode_ToolsToModel(g, n, messages) ==
    CASE n = "START" -> "llm_tool"
      [] n = "llm_tool" /\ g = "graph" -> "END"
      [] n = "llm_tool" /\ g = "graph_builder" -> tools_condition(messages)
      [] n = "tools" -> "llm_tool"

\* a wiring in which the first graph, too, has the tools node
NextNode_FirstGraphTools(g, n, messages) ==
    CASE n = "START" -> "llm_tool"
      [] n = "llm_tool" -> tools_condition(messages)
      [] n = "tools" -> "END"

\* the node that runs after node n of compiled graph g
\*   graph:         START -> llm_tool -> END
\*   graph_builder: START -> llm_tool -> tools_condition; tools -> END
NextNode(g, n, messages) ==
    CASE n = "START" -> "llm_tool"
      [] n = "llm_tool" /\ g = "graph" -> "END"
      [] n = "llm_tool" /\ g = "graph_builder" -> tools_condition(messages)
      [] n = "tools" -> "END"

lit_question ==
    <<"W", "h", "a", "t", " ", "i", "s", " ", "2", " ", "p", "l", "u", "s", " ", "2">>
lit_answer == <<"4">>
lit_multiply == "multiply"

\* llm_with_tools.invoke(messages): an AI message with an id of its own; a
\* reply with tool calls has empty content
llm_with_tools_invoke(calls, n) ==
    AIMessage(IF calls = <<>> THEN lit_answer ELSE <<>>, MaxGivenId + n + 1, calls)

NotInvoked == [graph |-> "none", input |-> Listed(<<>>)]
EmptyState == [messages |-> <<>>]
GraphIdle ==
    /\ invoked = NotInvoked /\ node = "idle" /\ state = EmptyState
    /\ uuids = 0 /\ visited = <<>> /\ executed = <<>> /\ prompts = <<>>

(***************************************************************************)
(* The kernel of a notebook: cells run in one namespace of global names.   *)
(* Each notebook has a kernel of its own; the names the two notebooks bind *)
(* do not overlap, so one map of names serves for either.  Names bound by  *)
(* import are never rebound and are left out.                              *)
(***************************************************************************)
AgentNames ==
    {"messages", "llm", "result", "add", "llm_with_tools", "tool_call", "state",
     "State", "initial_messages", "ai_message", "llm_tool", "builder", "graph",
     "tools", "graph_builder"}
PydanticNames ==
    {"Car", "car", "Room", "room", "Employee", "emp1", "emp2", "Classroom",
     "classroom", "User", "user", "UserProfile", "Address", "Company",
     "company_data", "employee"}
Names == AgentNames \cup PydanticNames

\* what a name may be bound to, and what a cell may show
Unbound == [t |-> "unbound"]
Nothing == [t |-> "nothing"]
MessageList(ms) == [t |-> "list", ms |-> ms]
OneMessage(m) == [t |-> "message", m |-> m]
StateDict(ms) == [t |-> "state", messages |-> ms]
ChatOpenAI(bound) == [t |-> "ChatOpenAI", bound |-> bound]
Function(name) == [t |-> "function", name |-> name]
Class(name, def) == [t |-> "class", name |-> name, def |-> def]
ToolList(names) == [t |-> "tools", names |-> names]
StateGraph(wiring) == [t |-> "StateGraph", wiring |-> wiring]
CompiledStateGraph(wiring) == [t |-> "CompiledStateGraph", wiring |-> wiring]
Image(nodes) == [t |-> "Image", nodes |-> nodes]
Printed(outcome_) == [t |-> "printed", outcome |-> outcome_]

NoKernel == "none"
EmptyNamespace == [name \in Names |-> Unbound]
NotRun == [t |-> "not run"]
NoRerun == [cell |-> "none", seen |-> <<>>, did |-> NotRun]
NotebookIdle ==
    /\ kernel = NoKernel /\ ns = EmptyNamespace /\ fresh = 0 /\ pc = 0
    /\ first = <<>> /\ seen = <<>> /\ rerun = NoRerun /\ reruns = 0

\* what running a cell does: the namespace it leaves, what it shows, the
\* exception it raises if any, and the count of generated ids
Ran(g, shown, n) == [ns |-> g, shown |-> shown, raised |-> "", fresh |-> n]
Threw(g, exc, n) == [ns |-> g, shown |-> Nothing, raised |-> exc, fresh |-> n]

\* messages as a cell shows them; generated ids differ from run to run, so
\* of an id only its presence is kept
Shown(ms) == [i \in 1..Len(ms) |-> [ms[i] EXCEPT !.id = IF @ = 0 THEN 0 ELSE 1]]

lit_help ==
    <<"p", "l", "e", "a", "s", "e", " ", "t", "e", "l", "l", " ", "m", "e",
      " ", "h", "o", "w", " ", "c", "a", "n", " ", "i", " ", "h", "e", "l",
      "p">>
lit_learn_coding ==
    <<"I", " ", "w", "a", "n", "t", " ", "t", "o", " ", "l", "e", "a", "r",
      "n", " ", "c", "o", "d", "i", "n", "g">>
lit_which_language ==
    <<"W", "h", "i", "c", "h", " ", "p", "r", "o", "g", "r", "a", "m", "m",
      "i", "n", "g", " ", "l", "a", "n", "g", "u", "a", "g", "e", " ", "y",
      "o", "u", " ", "w", "a", "n", "t", " ", "t", "o", " ", "l", "e", "a",
      "r", "n">>
lit_learn_python ==
    <<"I", " ", "w", "a", "n", "t", " ", "t", "o", " ", "l", "e", "a", "r",
      "n", " ", "P", "y", "t", "h", "o", "n", " ", "P", "r", "o", "g", "r",
      "a", "m", "m", "i", "n", "g", " ", "L", "a", "n", "g", "u", "a", "g",
      "e">>

(***************************************************************************)
(* The cells of the agent notebook.  g is the namespace the cell finds, n  *)
(* the count of ids generated so far.  The model's replies are those the   *)
(* notebook's outputs record: a tool call add(2, 2) when add is bound and  *)
(* the question is asked, a reply without tool calls otherwise.            *)
(***************************************************************************)
\* ChatOpenAI.invoke(input): a list of messages is answered with an AI
\* message; anything else that is not a str or a prompt value is refused
\* with ValueError
chat_invoke(model, input, n) ==
    IF input.t # "list" THEN [raised |-> "ValueError", message |-> <<>>]
    ELSE LET asked == /\ input.ms # <<>>
                      /\ input.ms[Len(input.ms)].content = lit_question
         IN  [raised |-> "",
              message |-> IF model.bound # {} /\ asked
                          THEN llm_with_tools_invoke(<<ToolCall("add", 2, 2, 1)>>, n)
                          ELSE llm_with_tools_invoke(<<>>, n)]

\* the nodes of a compiled graph, as get_graph() draws them
GraphNodes(wiring) ==
    IF wiring = "graph" THEN {"__start__", "llm_tool", "__end__"}
    ELSE {"__start__", "llm_tool", "tools", "__end__"}

\* compiled.invoke(input) with the nodes a kernel holds: the input is written
\* to the state (s0), llm_tool appends the model's reply (s1), and the tools
\* node runs if the wiring leads to it
graph_after_llm_tool(compiled, s1) ==
    IF NextNode(compiled.wiring, "llm_tool", s1.messages) = "tools"
    THEN add_messages(Listed(s1.messages),
                      Listed(ToolNode(s1.messages[Len(s1.messages)].tool_calls)),
                      s1.made)
    ELSE s1
graph_after_input(compiled, model, s0) ==
    graph_after_llm_tool(compiled,
        add_messages(Listed(s0.messages),
                     Listed(<<chat_invoke(model, MessageList(s0.messages),
                                          s0.made).message>>),
                     s0.made + 1))
graph_invoke(compiled, model, input, n) ==
    graph_after_input(compiled, model, add_messages(Listed(<<>>), input, n))

\* messages=[AIMessage(..)]; messages.append(..) x3; pretty_print each
cell_messages(g, n) ==
    LET ms == <<AIMessage(lit_help, 0, <<>>), HumanMessage(lit_learn_coding, 0),
                AIMessage(lit_which_language, 0, <<>>),
                HumanMessage(lit_learn_python, 0)>>
    IN  Ran([g EXCEPT !["messages"] = MessageList(ms)], MessageList(Shown(ms)), n)

\* llm=ChatOpenAI(model="gpt-4o"); result=llm.invoke(messages)
cell_llm_invoke(g, n) ==
    LET g1 == [g EXCEPT !["llm"] = ChatOpenAI({})]
        r == chat_invoke(g1["llm"], g["messages"], n)
    IN  IF r.raised # "" THEN Threw(g1, r.raised, n)
        ELSE Ran([g1 EXCEPT !["result"] = OneMessage(r.message)], Nothing, n + 1)

\* result.response_metadata
cell_response_metadata(g, n) ==
    Ran(g, [t |-> "response_metadata", of |-> Shown(<<g["result"].m>>)], n)

\* llm
cell_show_llm(g, n) == Ran(g, g["llm"], n)

\* llm_with_tools = llm.bind_tools([add]); tool_call=llm_with_tools.invoke([..])
cell_bind_tools(g, n) ==
    LET g1 == [g EXCEPT !["llm_with_tools"] = ChatOpenAI({g["add"].name})]
        r == chat_invoke(g1["llm_with_tools"],
                         MessageList(<<HumanMessage(lit_question, 0)>>), n)
    IN  Ran([g1 EXCEPT !["tool_call"] = OneMessage(r.message)], Nothing, n + 1)

\* tool_call.tool_calls
cell_tool_calls(g, n) ==
    Ran(g, [t |-> "tool_calls", calls |-> g["tool_call"].m.tool_calls], n)

\* initial_messages=[AIMessage(..)]; initial_messages.append(..); initial_messages
cell_initial_messages(g, n) ==
    LET ms == <<AIMessage(lit_help, 0, <<>>), HumanMessage(lit_learn_coding, 0)>>
    IN  Ran([g EXCEPT !["initial_messages"] = MessageList(ms)],
            MessageList(Shown(ms)), n)

\* ai_message=AIMessage(..); ai_message
cell_ai_message(g, n) ==
    LET m == AIMessage(lit_which_language, 0, <<>>)
    IN  Ran([g EXCEPT !["ai_message"] = OneMessage(m)], OneMessage(Shown(<<m>>)[1]), n)

\* add_messages(initial_messages,ai_message): the result is shown; the ids it
\* generates are set on the message objects themselves, which the two names
\* still hold
cell_add_messages(g, n) ==
    LET l == g["initial_messages"].ms
        r == g["ai_message"].m
        m == add_messages(Listed(l), Single(r), n)
    IN  IF m.status # "ok" THEN Threw(g, m.status, m.made)
        ELSE Ran([g EXCEPT
                     !["initial_messages"] = MessageList(AssignIds(l, n)),
                     !["ai_message"] =
                         OneMessage(AssignIds(<<r>>, n + MissingIds(l))[1])],
                 MessageList(Shown(m.messages)), m.made)

(***************************************************************************)
(* The calls that are checked.  A call varies one argument over a rich     *)
(* set of values (lengths and numbers on both sides of every limit,        *)
(* every short string over the e-mail alphabet, values of other types, no  *)
(* value) while the other arguments range over the notebook's own valid    *)
(* and invalid literals, so that every combination of valid and invalid    *)
(* fields occurs.                                                          *)
(***************************************************************************)
Around(limit) == {k \in (limit - Slack)..(limit + Slack) : k >= 0}

\* a str of length k that ends with c
Ending(c, k) == IF k = 0 THEN <<>> ELSE Pad("a", k - 1) \o <<c>>

EmailAlphabet == {"a", "@", "."}
StringsUpTo(alphabet, n) == UNION {[1..k -> alphabet] : k \in 0..n}

lit_ab == <<"a", "b">>
lit_invalid_email == <<"i", "n", "v", "a", "l", "i", "d", "-", "e", "m", "a", "i", "l">>
lit_123 == <<"1", "2", "3">>
lit_alice == <<"A", "l", "i", "c", "e">>
lit_alice_email ==
    <<"a", "l", "i", "c", "e", "@", "e", "x", "a", "m", "p", "l", "e", ".", "c", "o", "m">>

UsernameValues ==
    {PyStr(Ending(c, k)) :
        c \in {"a", "7", "!"},
        k \in Around(username_min_length) \cup Around(username_max_length)}
    \cup {PyStr(lit_ab), PyStr(<<"a", "!">>), PyStr(lit_alice), PyInt(5), MISSING}
EmailValues ==
    {PyStr(s) : s \in StringsUpTo(EmailAlphabet, MaxEmailLen)}
    \cup {PyStr(lit_invalid_email), PyStr(lit_alice_email), PyInt(5), MISSING}
PasswordValues ==
    {PyStr(Pad("x", k)) : k \in Around(password_min_length)}
    \cup {PyStr(lit_123), PyInt(12345678), MISSING}
AgeValues ==
    {PyInt(n) : n \in Around(age_ge) \cup Around(age_le) \cup {30, 200}}
    \cup {PyStr(<<"5", "0">>), PyStr(lit_ab), PyFloat(50, 0), PyFloat(50, 5),
          PyNone, MISSING}

UsernameLiterals == {PyStr(lit_alice), PyStr(lit_ab), PyStr(<<"a", "!">>)}
EmailLiterals == {PyStr(lit_alice_email), PyStr(lit_invalid_email)}
PasswordLiterals == {PyStr(Pad("x", password_min_length)), PyStr(lit_123)}
AgeLiterals == {PyInt(30), PyInt(200)}

UserProfileCalls ==
    {[username |-> u, email |-> e, password |-> p, age |-> a] :
        u \in UsernameValues, e \in EmailLiterals,
        p \in PasswordLiterals, a \in AgeLiterals}
    \cup
    {[username |-> u, email |-> e, password |-> p, age |-> a] :
        u \in UsernameLiterals, e \in EmailValues,
        p \in PasswordLiterals, a \in AgeLiterals}
    \cup
    {[username |-> u, email |-> e, password |-> p, age |-> a] :
        u \in UsernameLiterals, e \in EmailLiterals,
        p \in PasswordValues, a \in AgeLiterals}
    \cup
    {[username |-> u, email |-> e, password |-> p, age |-> a] :
        u \in UsernameLiterals, e \in EmailLiterals,
        p \in PasswordLiterals, a \in AgeValues}

lit_sai == <<"s", "a", "i">>
lit_john == <<"j", "o", "h", "n">>
lit_IT == <<"I", "T">>

\* Room and Car calls: each argument a str, an int, a digit string, a
\* fractional float, None, or not passed
AnyValues ==
    {PyStr(lit_sai), PyInt(4), PyStr(<<"4", "2">>), PyFloat(4, 5), PyNone, MISSING}
RoomCalls ==
    {[names |-> a, no_of_people |-> b, city |-> c] :
        a \in AnyValues, b \in AnyValues, c \in AnyValues}
CarCalls ==
    {[brand |-> a, price |-> b, country |-> c] :
        a \in AnyValues, b \in AnyValues, c \in AnyValues}

Employee1Calls ==
    {[id |-> i, name |-> n, department |-> d, salary |-> s, is_active |-> a] :
        i \in {PyInt(1), PyStr(<<"7">>), PyStr(lit_ab), MISSING},
        n \in {PyStr(lit_john), PyInt(5), MISSING},
        d \in {PyStr(lit_IT), MISSING},
        s \in {MISSING, PyNone, PyInt(30000), PyFloat(30000, 0), PyFloat(755, 5),
               PyStr(<<"5", "0">>), PyStr(lit_ab), PyList(<<>>)},
        a \in {MISSING, PyNone, PyBool(FALSE), PyBool(TRUE), PyInt(1), PyInt(2),
               PyStr(lit_ab)}}

\* address dicts with every subset of the four keys, one with a non-str value
AddressArgs ==
    {Dict([street |-> s, city |-> c, country |-> n, zip_code |-> z]) :
        s \in {PyStr(lit_ab), MISSING}, c \in {PyStr(lit_sai), MISSING},
        n \in {PyStr(lit_IT), MISSING}, z \in {PyStr(lit_123), MISSING}}
    \cup {Dict([street |-> PyInt(123), city |-> PyStr(lit_sai),
                country |-> PyStr(lit_IT), zip_code |-> PyStr(lit_123)])}
\* company dicts with every subset of the three keys over those addresses
CompanyArgs ==
    {Dict([name |-> n, address |-> a, employees |-> e]) :
        n \in {PyStr(lit_ab), MISSING},
        a \in AddressArgs \cup {MISSING, PyInt(5)},
        e \in {PyList(<<PyStr(lit_alice), PyStr(lit_sai)>>), PyList(<<PyInt(1)>>),
               MISSING}}
Employee2Calls ==
    {[name |-> n, position |-> p, salary |-> s, company |-> c, home_address |-> h] :
        n \in {PyStr(lit_alice), MISSING},
        p \in {PyStr(lit_ab), MISSING},
        s \in {PyInt(75000), MISSING},
        c \in CompanyArgs \cup {MISSING, PyInt(5)},
        h \in {MISSING, PyNone,
               Dict([street |-> PyStr(lit_ab), city |-> PyStr(lit_sai),
                     country |-> PyStr(lit_IT), zip_code |-> PyStr(lit_123)]),
               Dict([street |-> PyStr(lit_ab)])}}

(***************************************************************************)
(* Constructor calls as a state machine: a call is made, and returns an    *)
(* instance or raises.                                                     *)
(***************************************************************************)
NoCall == [cls |-> "none", kw |-> <<>>]
ValidateIdle == call = NoCall /\ outcome = Pending

InitValidate ==
    /\ ReducerIdle
    /\ GraphIdle
    /\ NotebookIdle
    /\ outcome = Pending
    /\ \/ \E kw \in UserProfileCalls : call = [cls |-> "UserProfile", kw |-> kw]
       \/ \E kw \in RoomCalls : call = [cls |-> "Room", kw |-> kw]
       \/ \E kw \in CarCalls : call = [cls |-> "Car", kw |-> kw]
       \/ \E kw \in Employee1Calls : call = [cls |-> "Employee1", kw |-> kw]
       \/ \E kw \in Employee2Calls : call = [cls |-> "Employee2", kw |-> kw]

ConstructUserProfile ==
    /\ outcome = Pending
    /\ call.cls = "UserProfile"
    /\ outcome' = UserProfile(call.kw)
    /\ UNCHANGED <<call, varsReducer, varsGraph, varsNotebook>>

ConstructRoom ==
    /\ outcome = Pending
    /\ call.cls = "Room"
    /\ outcome' = Room(call.kw)
    /\ UNCHANGED <<call, varsReducer, varsGraph, varsNotebook>>

ConstructCar ==
    /\ outcome = Pending
    /\ call.cls = "Car"
    /\ outcome' = Car(call.kw)
    /\ UNCHANGED <<call, varsReducer, varsGraph, varsNotebook>>

ConstructEmployee1 ==
    /\ outcome = Pending
    /\ call.cls = "Employee1"
    /\ outcome' = Employee1(call.kw)
    /\ UNCHANGED <<call, varsReducer, varsGraph, varsNotebook>>

ConstructEmployee2 ==
    /\ outcome = Pending
    /\ call.cls = "Employee2"
    /\ outcome' = Employee2(call.kw)
    /\ UNCHANGED <<call, varsReducer, varsGraph, varsNotebook>>

NextValidate ==
    \/ ConstructUserProfile
    \/ ConstructRoom
    \/ ConstructCar
    \/ ConstructEmployee1
    \/ ConstructEmployee2

SpecValidate == InitValidate /\ [][NextValidate]_vars

(***************************************************************************)
(* Claims about UserProfile                                                *)
(***************************************************************************)
notebook_profile ==
    [username |-> PyStr(lit_ab), email |-> PyStr(lit_invalid_email),
     password |-> PyStr(lit_123), age |-> PyInt(200)]

UserProfileReturned == call.cls = "UserProfile" /\ outcome.status # "pending"

\* the e-mail shape in words: exactly one '@', not first, and after it a '.'
\* that neither follows the '@' directly nor ends the string
EmailShape(s) ==
    /\ Cardinality({i \in 1..Len(s) : s[i] = "@"}) = 1
    /\ \E a \in 2..Len(s) :
        /\ s[a] = "@"
        /\ \E p \in (a + 2)..(Len(s) - 1) : s[p] = "."

\* the integer an age argument stands for, when it stands for one
IsWholeNumber(v) ==
    \/ v.t = "int"
    \/ v.t = "float" /\ v.d = 0
    \/ v.t = "str" /\ v.s # <<>> /\ \A i \in 1..Len(v.s) : v.s[i] \in DigitChars
WholeNumber(v) == IF v.t = "str" THEN DigitsValue(v.s) ELSE v.n

\* the fields of a UserProfile call whose value violates the field's constraints
FieldViolates(kw, f) ==
    LET v == kw[f]
    IN  CASE f = "username" ->
                \/ v.t # "str"
                \/ Len(v.s) < 3
                \/ Len(v.s) > 20
                \/ \E i \in 1..Len(v.s) : v.s[i] \notin Letters \cup DigitChars
          [] f = "email" -> v.t # "str" \/ ~EmailShape(v.s)
          [] f = "password" -> v.t # "str" \/ Len(v.s) < 8
          [] f = "age" ->
                \/ ~IsWholeNumber(v)
                \/ WholeNumber(v) < 13
                \/ WholeNumber(v) > 120
ProfileFields == {"username", "email", "password", "age"}
ViolatingFields(kw) == {f \in ProfileFields : FieldViolates(kw, f)}

\* C3: a rejected UserProfile call raises one ValidationError that has exactly
\* one line for every field whose value violates its constraints (so 4 lines
\* for the notebook's call), and every line names the field, a violation kind
\* and the value that was passed for the field.
C3_AllViolationsReported ==
    (UserProfileReturned /\ outcome.status # "ok") =>
        /\ outcome.status = "ValidationError"
        /\ Len(outcome.errors) = Cardinality(ViolatingFields(call.kw))
        /\ {outcome.errors[i].loc : i \in 1..Len(outcome.errors)}
             = {<<f>> : f \in ViolatingFields(call.kw)}
        /\ \A i \in 1..Len(outcome.errors) :
             /\ outcome.errors[i].type \notin {"none", ""}
             /\ outcome.errors[i].type # "missing" =>
                  outcome.errors[i].input = call.kw[outcome.errors[i].loc[1]]
        /\ (call.kw = notebook_profile => Len(outcome.errors) = 4)

\* the notebook's call has been rejected with its four lines
C3_Witness ==
    /\ UserProfileReturned
    /\ call.kw = notebook_profile
    /\ outcome.status = "ValidationError"
    /\ Len(outcome.errors) = 4

\* C4: every field contributes at most one line, and for username the length
\* bounds come before validate_username: a str username of a wrong length is
\* reported once, as too short or too long, and validate_username is not
\* called for it ('a!' is reported once as string_too_short).
C4_LengthBeforeValidator ==
    UserProfileReturned =>
        LET u == call.kw.username
            lines == {i \in 1..Len(outcome.errors) :
                        outcome.errors[i].loc = <<"username">>}
        IN  /\ \A i, j \in 1..Len(outcome.errors) :
                  outcome.errors[i].loc = outcome.errors[j].loc => i = j
            /\ (u.t = "str" /\ Len(u.s) < 3) =>
                  /\ Cardinality(lines) = 1
                  /\ \A i \in lines : outcome.errors[i].type = "string_too_short"
                  /\ "validate_username" \notin outcome.ran
            /\ (u.t = "str" /\ Len(u.s) > 20) =>
                  /\ Cardinality(lines) = 1
                  /\ \A i \in lines : outcome.errors[i].type = "string_too_long"
                  /\ "validate_username" \notin outcome.ran

\* the call with username 'a!' (too short and not alphanumeric) has returned
C4_Witness ==
    /\ UserProfileReturned
    /\ call.kw.username = PyStr(<<"a", "!">>)
    /\ outcome.status = "ValidationError"

\* the four conditions of the claim, for arguments of the declared types
ProfileTyped(kw) ==
    /\ kw.username.t = "str"
    /\ kw.email.t = "str"
    /\ kw.password.t = "str"
    /\ kw.age.t = "int"
ProfileConditions(kw) ==
    /\ 3 <= Len(kw.username.s)
    /\ Len(kw.username.s) <= 20
    /\ \A i \in 1..Len(kw.username.s) : kw.username.s[i] \in Letters \cup DigitChars
    /\ EmailShape(kw.email.s)
    /\ Len(kw.password.s) >= 8
    /\ 13 <= kw.age.n
    /\ kw.age.n <= 120

Employee1Returned == call.cls = "Employee1" /\ outcome.status # "pending"

notebook_emp1 ==
    [id |-> PyInt(1), name |-> PyStr(lit_john), department |-> PyStr(lit_IT),
     salary |-> MISSING, is_active |-> MISSING]

\* values that can stand for a float, and for a bool
CoercibleToFloat(v) ==
    \/ v.t \in {"float", "int"}
    \/ v.t = "str" /\ v.s # <<>> /\ \A i \in 1..Len(v.s) : v.s[i] \in DigitChars
CoercibleToBool(v) ==
    \/ v.t = "bool"
    \/ v.t \in {"int", "float"} /\ v.n \in {0, 1} /\ v.d = 0
    \/ v.t = "str" /\ v.s \in {<<"0">>, <<"1">>}

\* C7: the first Employee is built when id (an int), name and department
\* (strs) are supplied and each optional field is omitted, None or a value of
\* its type; an omitted salary is None and an omitted is_active is True; the
\* call is rejected when id, name or department is missing, and when salary
\* or is_active is given a value (other than None) that is not coercible to
\* float, respectively bool.
C7_RequiredAndOptional ==
    Employee1Returned =>
        LET kw == call.kw
            requiredGiven ==
                kw.id.t = "int" /\ kw.name.t = "str" /\ kw.department.t = "str"
            salaryFine ==
                kw.salary.t \in {"missing", "none"} \/ CoercibleToFloat(kw.salary)
            activeFine ==
                kw.is_active.t \in {"missing", "none"} \/ CoercibleToBool(kw.is_active)
        IN  /\ (requiredGiven /\ salaryFine /\ activeFine) =>
                /\ outcome.status = "ok"
                /\ outcome.instance.f.id = kw.id
                /\ outcome.instance.f.name = kw.name
                /\ outcome.instance.f.department = kw.department
                /\ kw.salary.t = "missing" => outcome.instance.f.salary = PyNone
                /\ kw.is_active.t = "missing" =>
                       outcome.instance.f.is_active = PyBool(TRUE)
            /\ \A f \in {"id", "name", "department"} :
                kw[f].t = "missing" =>
                    /\ outcome.status = "ValidationError"
                    /\ \E i \in 1..Len(outcome.errors) :
                           /\ outcome.errors[i].loc = <<f>>
                           /\ outcome.errors[i].type = "missing"
            /\ ~salaryFine =>
                    /\ outcome.status = "ValidationError"
                    /\ \E i \in 1..Len(outcome.errors) :
                           outcome.errors[i].loc = <<"salary">>
            /\ ~activeFine =>
                    /\ outcome.status = "ValidationError"
                    /\ \E i \in 1..Len(outcome.errors) :
                           outcome.errors[i].loc = <<"is_active">>

\* the notebook's emp1 has been built with both defaults
C7_Witness ==
    /\ Employee1Returned
    /\ call.kw = notebook_emp1
    /\ outcome.status = "ok"
    /\ outcome.instance.f.salary = PyNone
    /\ outcome.instance.f.is_active = PyBool(TRUE)

Employee2Returned == call.cls = "Employee2" /\ outcome.status # "pending"
CompanyKeys == {"name", "address", "employees"}
AddressKeys == {"street", "city", "country", "zip_code"}
HasErrorAt(loc) == \E i \in 1..Len(outcome.errors) : outcome.errors[i].loc = loc

\* C8: when the second Employee is built from a company given as a dict, its
\* company is a Company instance whose address is an Address instance, and an
\* omitted home_address is None; the call is rejected, with a line for the
\* key, whenever the company dict lacks name, address or employees or its
\* address dict lacks street, city, country or zip_code.
C8_NestedValidation ==
    (Employee2Returned /\ call.kw.company.t = "dict") =>
        LET c == call.kw.company.kw
        IN  /\ outcome.status = "ok" =>
                /\ outcome.instance.f.company.t = "Company"
                /\ outcome.instance.f.company.f.address.t = "Address"
                /\ call.kw.home_address.t = "missing" =>
                       outcome.instance.f.home_address = PyNone
            /\ \A k \in CompanyKeys \ DOMAIN c :
                /\ outcome.status = "ValidationError"
                /\ HasErrorAt(<<"company", k>>)
            /\ ("address" \in DOMAIN c /\ c.address.t = "dict") =>
                \A k \in AddressKeys \ DOMAIN c.address.kw :
                    /\ outcome.status = "ValidationError"
                    /\ HasErrorAt(<<"company", "address", k>>)

\* an Employee built from a company dict, without a home_address
C8_Witness ==
    /\ Employee2Returned
    /\ call.kw.company.t = "dict"
    /\ call.kw.home_address.t = "missing"
    /\ outcome.status = "ok"
    /\ outcome.instance.f.company.f.address.t = "Address"

RoomReturned == call.cls = "Room" /\ outcome.status # "pending"
CarReturned == call.cls = "Car" /\ outcome.status # "pending"
AllPassed(kw) == \A k \in DOMAIN kw : kw[k].t # "missing"

\* C10: Room(names, no_of_people, city) succeeds for every combination of
\* three argument values, whatever their types, and holds them unchanged; Car,
\* a BaseModel with a str, an int and a str field, given the same values
\* either raises or holds a str, an int and a str, never a value whose type
\* contradicts the annotation.
C10_DataclassDoesNotValidate ==
    /\ (RoomReturned /\ AllPassed(call.kw)) =>
          /\ outcome.status = "ok"
          /\ outcome.instance = Instance("Room", call.kw)
    /\ (CarReturned /\ AllPassed(call.kw)) =>
          /\ outcome.status \in {"ok", "ValidationError"}
          /\ outcome.status = "ok" =>
                /\ outcome.instance.f.brand.t = "str"
                /\ outcome.instance.f.price.t = "int"
                /\ outcome.instance.f.country.t = "str"
          /\ (call.kw.brand.t # "str" \/ call.kw.country.t # "str") =>
                outcome.status = "ValidationError"
          /\ call.kw.price.t # "int" =>
                \/ outcome.status = "ValidationError"
                \/ outcome.instance.f.price # call.kw.price

\* a Room built from a str where the annotation says int, and an int where it
\* says str
C10_Witness ==
    /\ RoomReturned
    /\ call.kw.no_of_people.t = "str"
    /\ call.kw.city.t = "int"
    /\ outcome.status = "ok"
    /\ outcome.instance.f.no_of_people = call.kw.no_of_people

(***************************************************************************)
(* add_messages as a state machine: it is called on a list and an update.  *)
(***************************************************************************)
lit_x == <<"x">>
lit_y == <<"y">>
GivenIds == 0..MaxGivenId
SeqsUpTo(S, n) == UNION {[1..k -> S] : k \in 0..n}

\* the messages a state holds, and the messages an update may carry
HeldMessages ==
    {HumanMessage(lit_x, i) : i \in GivenIds} \cup {AIMessage(lit_x, i, <<>>) : i \in GivenIds}
UpdateMessages ==
    {HumanMessage(lit_y, i) : i \in GivenIds}
    \cup {AIMessage(lit_y, i, <<>>) : i \in GivenIds}
    \cup {RemoveMessage(i) : i \in GivenIds \ {0}}

InitReducer ==
    /\ ValidateIdle
    /\ GraphIdle
    /\ NotebookIdle
    /\ merged = NotReduced
    /\ schema \in {"State", "state"}
    /\ \E ms \in SeqsUpTo(HeldMessages, MaxMessages) : left = Listed(ms)
    /\ \/ \E ms \in SeqsUpTo(UpdateMessages, MaxMessages) : right = Listed(ms)
       \/ schema = "State" /\ \E m \in UpdateMessages : right = Single(m)

\* an update of State.messages goes through add_messages
Reduce ==
    /\ schema = "State"
    /\ merged = NotReduced
    /\ merged' = add_messages(left, right, 0)
    /\ UNCHANGED <<schema, left, right, varsValidate, varsGraph, varsNotebook>>

\* an update of state.message, a key without a reducer: a list, as declared
Override ==
    /\ schema = "state"
    /\ merged = NotReduced
    /\ merged' = LastValue(left, right)
    /\ UNCHANGED <<schema, left, right, varsValidate, varsGraph, varsNotebook>>

NextReducer ==
    \/ Reduce
    \/ Override

SpecReducer == InitReducer /\ [][NextReducer]_vars

(***************************************************************************)
(* One invocation of a compiled graph: graph.invoke(input) or              *)
(* graph_builder.invoke(input).  The model's reply is any AI message with  *)
(* up to MaxToolCalls tool calls; the call to the model is taken to return. *)
(***************************************************************************)
ArgValues == (0 - MaxArg)..MaxArg
\* the tool names a reply may carry: the bound tool, and one that is not bound
ToolNames == bound_tools \cup {lit_multiply}
CallShapes == [name : ToolNames, a : ArgValues, b : ArgValues]
\* the tool_calls of a reply: each call has its own id
ToolCallLists ==
    {[i \in 1..Len(cs) |-> ToolCall(cs[i].name, cs[i].a, cs[i].b, i)] :
        cs \in SeqsUpTo(CallShapes, MaxToolCalls)}

Graphs == {"graph", "graph_builder"}
Inputs ==
    {Text(lit_question),
     Listed(<<HumanMessage(lit_question, 0)>>),
     Listed(<<HumanMessage(lit_question, 1), AIMessage(lit_answer, 2, <<>>),
              HumanMessage(lit_question, 0)>>),
     Listed(<<HumanMessage(lit_help, 1), HumanMessage(lit_question, 1)>>)}

InitGraph ==
    /\ ValidateIdle
    /\ ReducerIdle
    /\ NotebookIdle
    /\ \E g \in Graphs, x \in Inputs : invoked = [graph |-> g, input |-> x]
    /\ node = "START"
    /\ state = EmptyState
    /\ uuids = 0
    /\ visited = <<>>
    /\ executed = <<>>
    /\ prompts = <<>>

\* the update a node returned is written to the messages channel through the
\* add_messages reducer
Written(update) == add_messages(Listed(state.messages), update, uuids)

\* invoke: the input is written to the empty state, and the START edge taken
Invoke ==
    /\ node = "START"
    /\ Written(invoked.input).status = "ok"
    /\ state' = [messages |-> Written(invoked.input).messages]
    /\ uuids' = Written(invoked.input).made
    /\ node' = NextNode(invoked.graph, "START", state'.messages)
    /\ UNCHANGED <<invoked, visited, executed, prompts, varsValidate, varsReducer,
                   varsNotebook>>

\* def llm_tool(state): return {"messages": [llm_with_tools.invoke(state["messages"])]}
llm_tool ==
    /\ node = "llm_tool"
    /\ \E calls \in ToolCallLists :
          LET w == add_messages(Listed(state.messages),
                                Listed(<<llm_with_tools_invoke(calls, uuids)>>),
                                uuids + 1)
          IN  /\ state' = [messages |-> w.messages]
              /\ uuids' = w.made
    /\ node' = NextNode(invoked.graph, "llm_tool", state'.messages)
    /\ visited' = Append(visited, "llm_tool")
    /\ prompts' = Append(prompts, state.messages)
    /\ UNCHANGED <<invoked, executed, varsValidate, varsReducer, varsNotebook>>

\* the tools node: ToolNode(tools) answers the tool calls of the last message
tools_node ==
    /\ node = "tools"
    /\ LET calls == state.messages[Len(state.messages)].tool_calls
       IN  /\ state' = [messages |-> Written(Listed(ToolNode(calls))).messages]
           /\ uuids' = Written(Listed(ToolNode(calls))).made
           /\ executed' = executed \o Invocations(calls)
    /\ node' = NextNode(invoked.graph, "tools", state'.messages)
    /\ visited' = Append(visited, "tools")
    /\ UNCHANGED <<invoked, prompts, varsValidate, varsReducer, varsNotebook>>

NextGraph ==
    \/ Invoke
    \/ llm_tool
    \/ tools_node

SpecGraph == InitGraph /\ [][NextGraph]_vars

(***************************************************************************)
(* add_messages: what an update does to the list.                          *)
(***************************************************************************)
Reduced == schema = "State" /\ merged # NotReduced
L == convert_to_messages(left)
U == convert_to_messages(right)

\* message r is message m, with an id generated for it if m had none
KeptAs(m, r) ==
    /\ [r EXCEPT !.id = 0] = [m EXCEPT !.id = 0]
    /\ IF m.id = 0 THEN r.id > MaxGivenId ELSE r.id = m.id

\* the result is L, unchanged and in order, followed by the messages of U
Appended ==
    /\ merged.status = "ok"
    /\ Len(merged.messages) = Len(L) + Len(U)
    /\ \A i \in 1..Len(L) : KeptAs(L[i], merged.messages[i])
    /\ \A j \in 1..Len(U) : KeptAs(U[j], merged.messages[Len(L) + j])

\* no message of U is a RemoveMessage or carries an id that a message of L or
\* an earlier message of U carries
FreshUpdate ==
    \A j \in 1..Len(U) :
        /\ U[j].type # "remove"
        /\ U[j].id # 0 =>
              /\ \A i \in 1..Len(L) : L[i].id # U[j].id
              /\ \A k \in 1..(j - 1) : U[k].id # U[j].id

InputMessages == add_messages(Listed(<<>>), invoked.input, 0).messages
Reply == state.messages[Len(InputMessages) + 1]

\* C1: in the tool graph (graph_builder) llm_tool is the first node to run;
\* once it has run, the tools node runs next if and only if the message
\* llm_tool appended has at least one tool call, and otherwise the run is at
\* END with the tools node never having run.
C1_ToolsIffToolCalls ==
    invoked.graph = "graph_builder" =>
        /\ node = "llm_tool" => visited = <<>>
        /\ visited # <<>> => visited[1] = "llm_tool"
        /\ node \in {"tools", "END"} =>
              /\ Reply.type = "ai"
              /\ IF Len(Reply.tool_calls) >= 1
                 THEN \/ node = "tools" /\ visited = <<"llm_tool">>
                      \/ node = "END" /\ visited = <<"llm_tool", "tools">>
                 ELSE node = "END" /\ visited = <<"llm_tool">>

C1_Witness ==
    /\ invoked.graph = "graph_builder"
    /\ node = "tools"
    /\ visited = <<"llm_tool">>
    /\ Len(Reply.tool_calls) = 1
    /\ Reply.tool_calls[1].name = "add"

\* the answers of the tools node, once it has run: one per tool call
Answer(i) == state.messages[Len(InputMessages) + 1 + i]
AddCalls == SelectSeq(Reply.tool_calls, LAMBDA c : c.name = "add")

AddIsTheOnlyTool ==
    /\ tools = {"add"}
    /\ bound_tools = {"add"}
    /\ \A i \in 1..Len(executed) :
          /\ executed[i].name = "add"
          /\ executed[i].returned = executed[i].a + executed[i].b
    /\ "tools" \notin {visited[i] : i \in 1..Len(visited)} => executed = <<>>
    /\ visited = <<"llm_tool", "tools">> =>
          /\ Len(state.messages) = Len(InputMessages) + 1 + Len(Reply.tool_calls)
          /\ Len(executed) = Len(AddCalls)
          /\ \A i \in 1..Len(executed) :
                executed[i].a = AddCalls[i].a /\ executed[i].b = AddCalls[i].b
          /\ \A i \in 1..Len(Reply.tool_calls) :
                IF Reply.tool_calls[i].name = "add"
                THEN /\ Answer(i).status = "success"
                     /\ Answer(i).content =
                            str_int(Reply.tool_calls[i].a + Reply.tool_calls[i].b)
                ELSE Answer(i).status = "error"

\* running the tools changes nothing but the messages channel, to which it
\* appends, and the record of what has run
ToolsFrame ==
    node = "tools" =>
        /\ SubSeq(state'.messages, 1, Len(state.messages)) = state.messages
        /\ invoked' = invoked
        /\ varsValidate' = varsValidate
        /\ varsReducer' = varsReducer

\* C9: add(a, b) returns a + b; running it has no effect but its answer
\* being appended to the messages; add is the only tool bound to the model
\* and the only tool the tools node runs: every call the node executes is a
\* call of add, and a call naming anything else is answered with an error
\* message without any function being run.
C9_AddIsTheOnlyTool == []AddIsTheOnlyTool /\ [][ToolsFrame]_vars

C9_Witness ==
    /\ invoked.graph = "graph_builder"
    /\ visited = <<"llm_tool", "tools">>
    /\ Len(Reply.tool_calls) = 2
    /\ Reply.tool_calls[1].name = lit_multiply
    /\ Reply.tool_calls[2] = ToolCall("add", 1, 1, 2)
    /\ executed = <<[name |-> "add", a |-> 1, b |-> 1, returned |-> 2]>>
    /\ Answer(2).content = <<"2">>

(***************************************************************************)
(* The cells of the agent notebook, continued: the graphs.                 *)
(***************************************************************************)
\* builder=StateGraph(State); add_node, add_edge x2; graph=builder.compile();
\* display(Image(graph.get_graph().draw_mermaid_png()))
cell_build_graph(g, n) ==
    Ran([g EXCEPT !["builder"] = StateGraph("graph"),
                  !["graph"] = CompiledStateGraph("graph")],
        Image(GraphNodes("graph")), n)

\* messages=graph.invoke({"messages":"What is 2 plus 2"}); pretty_print each.
\* llm_tool looks llm_with_tools up when it is called.
Invoked(g, s) ==
    Ran([g EXCEPT !["messages"] = StateDict(s.messages)],
        MessageList(Shown(s.messages)), s.made)
cell_graph_invoke(g, n) ==
    Invoked(g, graph_invoke(g["graph"], g["llm_with_tools"], Text(lit_question), n))

\* a cell whose last line reads graph = builder.compile()
cell_build_tool_graph_AsGraph(g, n) ==
    Ran([g EXCEPT !["builder"] = StateGraph("graph_builder"),
                  !["graph"] = CompiledStateGraph("graph_builder"),
                  !["graph_builder"] = CompiledStateGraph("graph_builder")],
        Nothing, n)

\* builder=StateGraph(State); ...; graph_builder = builder.compile()
cell_build_tool_graph(g, n) ==
    Ran([g EXCEPT !["builder"] = StateGraph("graph_builder"),
                  !["graph_builder"] = CompiledStateGraph("graph_builder")],
        Nothing, n)

\* display(Image(graph.get_graph().draw_mermaid_png()))
cell_display_graph(g, n) == Ran(g, Image(GraphNodes(g["graph"].wiring)), n)

AgentCells ==
    <<"load_dotenv", "messages", "llm_invoke", "response_metadata", "def_add",
      "show_llm", "bind_tools", "tool_calls", "class_state", "class_State",
      "initial_messages", "ai_message", "add_messages", "def_llm_tool",
      "build_graph", "graph_invoke", "tools", "build_tool_graph", "display_graph">>

\* a cell that only imports, or defines a function or a class, binds the
\* name and shows nothing
AgentCell(c, g, n) ==
    CASE c = "load_dotenv" ->
            Ran(g, Nothing, n)
      [] c = "messages" -> cell_messages(g, n)
      [] c = "llm_invoke" -> cell_llm_invoke(g, n)
      [] c = "response_metadata" -> cell_response_metadata(g, n)
      [] c = "def_add" ->
            Ran([g EXCEPT !["add"] = Function("add")], Nothing, n)
      [] c = "show_llm" -> cell_show_llm(g, n)
      [] c = "bind_tools" -> cell_bind_tools(g, n)
      [] c = "tool_calls" -> cell_tool_calls(g, n)
      [] c = "class_state" ->
            Ran([g EXCEPT !["state"] = Class("state", "no reducer")], Nothing, n)
      [] c = "class_State" ->
            Ran([g EXCEPT !["State"] = Class("State", "add_messages")], Nothing, n)
      [] c = "initial_messages" -> cell_initial_messages(g, n)
      [] c = "ai_message" -> cell_ai_message(g, n)
      [] c = "add_messages" -> cell_add_messages(g, n)
      [] c = "def_llm_tool" ->
            Ran([g EXCEPT !["llm_tool"] = Function("llm_tool")], Nothing, n)
      [] c = "build_graph" -> cell_build_graph(g, n)
      [] c = "graph_invoke" -> cell_graph_invoke(g, n)
      [] c = "tools" ->
            Ran([g EXCEPT !["tools"] = ToolList({g["add"].name})], Nothing, n)
      [] c = "build_tool_graph" -> cell_build_tool_graph(g, n)
      [] c = "display_graph" -> cell_display_graph(g, n)

(***************************************************************************)
(* The cells of the Pydantic notebook.                                     *)
(***************************************************************************)
\* class Classroom(BaseModel): room_number:str; students: List[str]; capacity: int
Classroom(kw) ==
    LET r == str_validator(Arg(kw, "room_number"), 0, -1)
        s == list_str_validator(Arg(kw, "students"))
        c == int_validator(Arg(kw, "capacity"))
        lines == FieldErrors("room_number", r) \o FieldErrors("students", s)
                 \o FieldErrors("capacity", c)
    IN  IF lines = <<>>
        THEN Built(Instance("Classroom", [room_number |-> r.value,
                                          students |-> s.value,
                                          capacity |-> c.value]), {})
        ELSE Raised("ValidationError", lines, {})

\* datetime.now() as evaluated when class User is defined
PyDatetimeNow == Scalar("datetime", 0, 0, <<>>)

\* class User(BaseModel): id, name, email, age: Optional[int] = None,
\* is_active: bool = True, created_at: datetime = datetime.now().
\* created_at is never passed: it is always the default.
User(kw) ==
    LET i == int_validator(Arg(kw, "id"))
        m == str_validator(Arg(kw, "name"), 0, -1)
        e == str_validator(Arg(kw, "email"), 0, -1)
        a == WithDefault(Arg(kw, "age"), PyNone,
                         Optional(Arg(kw, "age"), int_validator(Arg(kw, "age"))))
        s == WithDefault(Arg(kw, "is_active"), PyBool(TRUE),
                         bool_validator(Arg(kw, "is_active")))
        lines == FieldErrors("id", i) \o FieldErrors("name", m)
                 \o FieldErrors("email", e) \o FieldErrors("age", a)
                 \o FieldErrors("is_active", s)
    IN  IF lines = <<>>
        THEN Built(Instance("User", [id |-> i.value, name |-> m.value,
                                     email |-> e.value, age |-> a.value,
                                     is_active |-> s.value,
                                     created_at |-> PyDatetimeNow]), {})
        ELSE Raised("ValidationError", lines, {})


notebook_car ==
    [brand |-> PyStr(<<"B", "M", "W">>), price |-> PyInt(200000000),
     country |-> PyStr(<<"I", "n", "d", "i", "a">>)]
notebook_room ==
    [names |-> PyStr(lit_sai), no_of_people |-> PyInt(4),
     city |-> PyStr(<<"H", "y", "d", "e", "r", "a", "b", "a", "d">>)]
notebook_emp2 ==
    [id |-> PyInt(2), name |-> PyStr(<<"W", "i", "c", "k">>),
     department |-> PyStr(<<"H", "r">>), salary |-> PyInt(30000),
     is_active |-> PyBool(FALSE)]
notebook_classroom ==
    [room_number |-> PyStr(<<"3", "0", "2">>),
     students |-> PyList(<<PyStr(lit_sai), PyStr(<<"v", "i", "j", "a", "y">>),
                           PyStr(<<"v", "i", "k", "r", "a", "m">>)>>),
     capacity |-> PyInt(30)]
notebook_user ==
    [id |-> PyInt(1), name |-> PyStr(lit_alice), email |-> PyStr(lit_alice_email),
     age |-> PyInt(30)]
company_data ==
    Dict([name |-> PyStr(<<"T", "e", "c", "h", " ", "C", "o", "r", "p">>),
          address |->
              Dict([street |-> PyStr(<<"1", "2", "3", " ", "T", "e", "c", "h", " ", "S", "t">>),
                    city |-> PyStr(<<"S", "a", "n", " ", "F", "r", "a", "n", "c", "i", "s", "c", "o">>),
                    country |-> PyStr(<<"U", "S", "A">>),
                    zip_code |-> PyStr(<<"9", "4", "1", "0", "5">>)]),
          employees |-> PyList(<<PyStr(lit_alice), PyStr(<<"B", "o", "b">>),
                                 PyStr(<<"C", "h", "a", "r", "l", "i", "e">>)>>)])
notebook_employee ==
    [name |-> PyStr(lit_alice),
     position |-> PyStr(<<"D", "e", "v", "e", "l", "o", "p", "e", "r">>),
     salary |-> PyInt(75000), company |-> company_data]

\* name = Cls(...): the name is bound if the constructor returns; if it
\* raises, the cell stops there and the name keeps what it held
Assigned(g, name, o, shown, n) ==
    IF o.status = "ok" THEN Ran([g EXCEPT ![name] = o.instance], shown, n)
    ELSE Threw(g, o.status, n)

\* Employee(...) with the class the name Employee is bound to
Employee(cls, kw) == IF cls.def = "Employee1" THEN Employee1(kw) ELSE Employee2(kw)

\* class Car(BaseModel): ...; car = Car(brand='BMW',price=200000000,country='India')
cell_Car(g, n) ==
    Assigned([g EXCEPT !["Car"] = Class("Car", "Car")], "car", Car(notebook_car),
             Nothing, n)

\* print(car)
cell_print_car(g, n) == Ran(g, Printed(g["car"]), n)

\* type(car)
cell_type_car(g, n) == Ran(g, [t |-> "type", name |-> g["car"].t], n)

\* @dataclass class Room(): ...; room = Room(...); print(room)
cell_Room(g, n) ==
    Assigned([g EXCEPT !["Room"] = Class("Room", "Room")], "room",
             Room(notebook_room), Printed(Room(notebook_room).instance), n)

\* emp1 = Employee(id=1,name="john",department='IT'); print(emp1)
cell_emp1(g, n) ==
    LET o == Employee(g["Employee"], notebook_emp1)
    IN  Assigned(g, "emp1", o, Printed(o.instance), n)

\* emp2 = Employee(id=2,name="Wick",department='Hr',salary=30000,is_active=False)
cell_emp2(g, n) ==
    LET o == Employee(g["Employee"], notebook_emp2)
    IN  Assigned(g, "emp2", o, Printed(o.instance), n)

\* classroom = Classroom(...); print(classroom)
cell_classroom(g, n) ==
    Assigned(g, "classroom", Classroom(notebook_classroom),
             Printed(Classroom(notebook_classroom).instance), n)

\* class User(BaseModel): ...; user = User(...); print(user.name);
\* print(user.model_dump())
cell_User(g, n) ==
    Assigned([g EXCEPT !["User"] = Class("User", "User")], "user",
             User(notebook_user), Printed(User(notebook_user).instance), n)

\* the exceptions "except ValueError" catches: pydantic's ValidationError is
\* a subclass of ValueError
ValueErrors == {"ValueError", "ValidationError"}

\* the cell without its try block
cell_UserProfile_NoTry(g, n) ==
    Assigned([g EXCEPT !["UserProfile"] = Class("UserProfile", "UserProfile")],
             "user", UserProfile(notebook_profile), Nothing, n)

\* class UserProfile(BaseModel): ...; try: user = UserProfile(...)
\* except ValueError as e: print(e)
cell_UserProfile(g, n) ==
    LET g1 == [g EXCEPT !["UserProfile"] = Class("UserProfile", "UserProfile")]
        o == UserProfile(notebook_profile)
    IN  IF o.status = "ok" THEN Ran([g1 EXCEPT !["user"] = o.instance], Nothing, n)
        ELSE IF o.status \in ValueErrors
             THEN Ran(g1, [t |-> "errors", errors |-> o.errors], n)
             ELSE Threw(g1, o.status, n)

\* class Address, class Company, class Employee (the second); company_data;
\* employee = Employee(name="Alice", ..., company=company_data)
cell_nested(g, n) ==
    Assigned([g EXCEPT !["Address"] = Class("Address", "Address"),
                       !["Company"] = Class("Company", "Company"),
                       !["Employee"] = Class("Employee", "Employee2"),
                       !["company_data"] = company_data],
             "employee", Employee2(notebook_employee), Nothing, n)

PydanticCells ==
    <<"import_BaseModel", "Car", "print_car", "type_car", "Room", "Employee",
      "emp1", "emp2", "Classroom", "classroom", "User", "UserProfile", "nested">>

\* a cell that only imports or defines a class binds the name and shows
\* nothing
PydanticCell(c, g, n) ==
    CASE c = "import_BaseModel" ->
            Ran(g, Nothing, n)
      [] c = "Car" -> cell_Car(g, n)
      [] c = "print_car" -> cell_print_car(g, n)
      [] c = "type_car" -> cell_type_car(g, n)
      [] c = "Room" -> cell_Room(g, n)
      [] c = "Employee" ->
            Ran([g EXCEPT !["Employee"] = Class("Employee", "Employee1")], Nothing, n)
      [] c = "emp1" -> cell_emp1(g, n)
      [] c = "emp2" -> cell_emp2(g, n)
      [] c = "Classroom" ->
            Ran([g EXCEPT !["Classroom"] = Class("Classroom", "Classroom")], Nothing, n)
      [] c = "classroom" -> cell_classroom(g, n)
      [] c = "User" -> cell_User(g, n)
      [] c = "UserProfile" -> cell_UserProfile(g, n)
      [] c = "nested" -> cell_nested(g, n)

(***************************************************************************)
(* A kernel session: the cells are run top to bottom, and any cell that    *)
(* has been run may be run again at any time, up to MaxReruns times.       *)
(***************************************************************************)
Kernels == {"agent", "pydantic"}
Cells(k) == IF k = "agent" THEN AgentCells ELSE PydanticCells
CellNames(k) == {Cells(k)[i] : i \in 1..Len(Cells(k))}
RunCell(k, c, g, n) == IF k = "agent" THEN AgentCell(c, g, n) ELSE PydanticCell(c, g, n)

\* a world in which no cell reads a global name
Reads_Nothing(c) == {}

\* the global names a cell's code reads before binding them itself
Reads(c) ==
    CASE c = "llm_invoke" -> {"messages"}
      [] c = "response_metadata" -> {"result"}
      [] c = "show_llm" -> {"llm"}
      [] c = "bind_tools" -> {"llm", "add"}
      [] c = "tool_calls" -> {"tool_call"}
      [] c = "add_messages" -> {"initial_messages", "ai_message"}
      [] c = "def_llm_tool" -> {"State"}
      [] c = "build_graph" -> {"State", "llm_tool"}
      [] c = "graph_invoke" -> {"graph", "llm_with_tools"}
      [] c = "tools" -> {"add"}
      [] c = "build_tool_graph" -> {"State", "llm_tool", "tools"}
      [] c = "display_graph" -> {"graph"}
      [] c = "print_car" -> {"car"}
      [] c = "type_car" -> {"car"}
      [] c = "emp1" -> {"Employee"}
      [] c = "emp2" -> {"Employee"}
      [] c = "classroom" -> {"Classroom"}
      [] OTHER -> {}

\* what the names a cell reads hold
View(c, g) == [name \in Reads(c) |-> g[name]]
\* what a run of a cell did: what it showed and what it raised
Did(r) == [shown |-> r.shown, raised |-> r.raised]

InitNotebook ==
    /\ ValidateIdle
    /\ ReducerIdle
    /\ GraphIdle
    /\ kernel \in Kernels
    /\ ns = EmptyNamespace
    /\ fresh = 0
    /\ pc = 0
    /\ first = [c \in CellNames(kernel) |-> NotRun]
    /\ seen = [c \in CellNames(kernel) |-> <<>>]
    /\ rerun = NoRerun
    /\ reruns = 0

\* cell c is run for the first time and does r
FirstRun(c, r) ==
    /\ ns' = r.ns
    /\ fresh' = r.fresh
    /\ first' = [first EXCEPT ![c] = Did(r)]
    /\ seen' = [seen EXCEPT ![c] = View(c, ns)]

\* the next cell down is run for the first time
RunNextCell ==
    /\ pc < Len(Cells(kernel))
    /\ FirstRun(Cells(kernel)[pc + 1], RunCell(kernel, Cells(kernel)[pc + 1], ns, fresh))
    /\ pc' = pc + 1
    /\ UNCHANGED <<kernel, rerun, reruns, varsValidate, varsReducer, varsGraph>>

\* cell c is run again and does r
AnotherRun(c, r) ==
    /\ ns' = r.ns
    /\ fresh' = r.fresh
    /\ rerun' = [cell |-> c, seen |-> View(c, ns), did |-> Did(r)]

\* a cell that has been run is run again
RerunCell ==
    /\ reruns < MaxReruns
    /\ \E i \in 1..pc :
          AnotherRun(Cells(kernel)[i], RunCell(kernel, Cells(kernel)[i], ns, fresh))
    /\ reruns' = reruns + 1
    /\ UNCHANGED <<kernel, pc, first, seen, varsValidate, varsReducer, varsGraph>>

NextNotebook ==
    \/ RunNextCell
    \/ RerunCell

SpecNotebook == InitNotebook /\ [][NextNotebook]_vars

(***************************************************************************)
(* Cells and the state they share.                                         *)
(***************************************************************************)
Rerun == rerun.cell # "none"

ReadRebound == {"llm_invoke", "emp1", "emp2"}
SameAsFirst == rerun.did = first[rerun.cell]
SeesAsFirst == rerun.seen = seen[rerun.cell]

Overridden == schema = "state" /\ merged # NotReduced

\* C11: for the schema whose key has no reducer (class state), the value a
\* node returns for the key overrides the prior value: after the update the
\* key holds exactly the returned list, and none of the earlier messages.
C11_NoReducerOverrides ==
    Overridden =>
        /\ merged.status = "ok"
        /\ merged.messages = right.ms
        /\ \A i \in 1..Len(left.ms), j \in 1..Len(merged.messages) :
              merged.messages[j] # left.ms[i]

C11_Witness ==
    /\ Overridden
    /\ Len(left.ms) = 2
    /\ Len(right.ms) = 1
    /\ right.ms[1].id = left.ms[1].id
    /\ right.ms[1].id = 1
    /\ merged.messages = right.ms

(***************************************************************************)
(* Termination of the tool graph.                                          *)
(***************************************************************************)
Times(nd) == Cardinality({i \in 1..Len(visited) : visited[i] = nd})

\* llm_tool has not run more than once, tools not more than once and never
\* before llm_tool; at END llm_tool has run exactly once
RunsOnce ==
    invoked.graph = "graph_builder" =>
        /\ Times("llm_tool") <= 1
        /\ Times("tools") <= 1
        /\ visited \in {<<>>, <<"llm_tool">>, <<"llm_tool", "tools">>}
        /\ node = "END" => Times("llm_tool") = 1

\* once the tools node has run, the run is at END and stays there
ToolsThenEnd ==
    (invoked.graph = "graph_builder" /\ node = "tools") => node' = "END"

\* how many nodes may still run, at most
StepsLeft(nd) ==
    CASE nd = "START" -> 3 [] nd = "llm_tool" -> 2 [] nd = "tools" -> 1 [] nd = "END" -> 0

\* every step of an invocation brings END nearer
Nearer == invoked.graph = "graph_builder" => StepsLeft(node') < StepsLeft(node)

\* short of END the invocation has a next step, the calls to the model and
\* to the tool returning
CanStep == (invoked.graph = "graph_builder" /\ node # "END") => ENABLED NextGraph

\* C12: every invocation of the tool graph terminates, the calls to the
\* model and to the tool returning: short of END it always has a next step,
\* and every step brings END nearer, so END is reached within three steps;
\* llm_tool runs exactly once and the tools node at most once, and after the
\* tools node the run goes to END, never back to llm_tool.
C12_ToolGraphTerminates ==
    /\ []RunsOnce
    /\ []CanStep
    /\ [][Nearer]_vars
    /\ [][ToolsThenEnd]_vars

C12_Witness ==
    /\ invoked.graph = "graph_builder"
    /\ node = "END"
    /\ visited = <<"llm_tool", "tools">>
    /\ Len(Reply.tool_calls) = 2

(***************************************************************************)
(* The first graph: START -> llm_tool -> END.                              *)
(***************************************************************************)
\* the messages passed to graph.invoke
GivenMessages == convert_to_messages(invoked.input)

FirstGraphEnded == invoked.graph = "graph" /\ node = "END"

\* the final state starts with the messages ms, unchanged but for the id an
\* id-less message is given, and in order
StartsWith(ms) ==
    /\ Len(state.messages) >= Len(ms)
    /\ \A i \in 1..Len(ms) : KeptAs(ms[i], state.messages[i])

\* the model was called once, with the whole of the messages ms
RepliedTo(ms) ==
    /\ Len(prompts) = 1
    /\ Len(prompts[1]) = Len(ms)
    /\ \A i \in 1..Len(ms) : KeptAs(ms[i], prompts[1][i])

\* no tool has run and no tool-result message has been appended
NoToolRan ==
    /\ executed = <<>>
    /\ "tools" \notin {visited[i] : i \in 1..Len(visited)}
    /\ \A i \in 1..Len(state.messages) : state.messages[i].type # "tool"

\* the single model reply ends the final state
EndsWithReply ==
    /\ visited = <<"llm_tool">>
    /\ state.messages[Len(state.messages)].type = "ai"
    /\ state.messages[Len(state.messages)].id > MaxGivenId

\* no two of the messages passed to graph.invoke carry the same id
DistinctIds(ms) ==
    \A i, j \in 1..Len(ms) : (i < j /\ ms[i].id # 0) => ms[i].id # ms[j].id

C13_SameIdInputs ==
    /\ FirstGraphEnded
    /\ ~DistinctIds(GivenMessages)
    /\ Len(GivenMessages) = 2
    /\ Len(state.messages) = 2

(***************************************************************************)
(* The tool graph: what an invocation leaves in the state.                 *)
(***************************************************************************)
ToolGraphEnded == invoked.graph = "graph_builder" /\ node = "END"

\* the final state is the messages ms, then the model reply, then one
\* tool-result message per tool call of the reply, in order, each carrying
\* the id of the call it answers and, for a call of add, str() of a + b; a
\* reply without tool calls ends the state
FinalState(ms) ==
    LET n == Len(ms)
        reply == state.messages[n + 1]
        calls == reply.tool_calls
        results == SubSeq(state.messages, n + 2, Len(state.messages))
    IN  /\ StartsWith(ms)
        /\ Len(state.messages) = n + 1 + Len(calls)
        /\ reply.type = "ai"
        /\ reply.id > MaxGivenId
        /\ \A i \in 1..n : state.messages[i].id # reply.id
        /\ \A i \in 1..Len(calls) :
              /\ results[i].type = "tool"
              /\ results[i].tool_call_id = calls[i].id
              /\ Cardinality({j \in 1..Len(results) :
                                 results[j].tool_call_id = calls[i].id}) = 1
              /\ calls[i].name = "add" =>
                    /\ results[i].content = str_int(calls[i].a + calls[i].b)
                    /\ results[i].status = "success"
        /\ calls = <<>> => state.messages[Len(state.messages)] = reply

C14_NoToolRequested ==
    /\ ToolGraphEnded
    /\ Reply.tool_calls = <<>>
    /\ state.messages[Len(state.messages)] = Reply

(***************************************************************************)
(* The names graph and graph_builder.                                      *)
(***************************************************************************)
\* cell c is run in this step, for the first time or again
RanCell(c) ==
    \/ pc' = pc + 1 /\ Cells(kernel)[pc'] = c
    \/ reruns' = reruns + 1 /\ rerun'.cell = c

\* the cells of the agent notebook that have been run for the first time
AgentCellsRun == IF kernel = "agent" THEN {AgentCells[i] : i \in 1..pc} ELSE {}

FirstGraph == CompiledStateGraph("graph")
FirstDiagram == Image({"__start__", "llm_tool", "__end__"})

\* what graph.invoke shows when the first graph answers: the question and
\* the reply with its tool call, and no tool-result message
ShowsFirstGraphRun(did) ==
    /\ did.raised = ""
    /\ did.shown.t = "list"
    /\ Len(did.shown.ms) = 2
    /\ did.shown.ms[1].type = "human"
    /\ did.shown.ms[2].type = "ai"
    /\ did.shown.ms[2].tool_calls # <<>>

\* graph is the first compiled graph from the cell that builds it on, and
\* the cells that read graph show the first graph
GraphIsFirstGraph ==
    /\ "build_graph" \in AgentCellsRun => ns["graph"] = FirstGraph
    /\ "build_tool_graph" \in AgentCellsRun =>
          /\ ns["graph_builder"] = CompiledStateGraph("graph_builder")
          /\ ns["graph"] # ns["graph_builder"]
    /\ "display_graph" \in AgentCellsRun =>
          /\ first["display_graph"] = [shown |-> FirstDiagram, raised |-> ""]
          /\ "tools" \notin first["display_graph"].shown.nodes
    /\ (kernel = "agent" /\ rerun.cell = "display_graph") =>
          rerun.did = [shown |-> FirstDiagram, raised |-> ""]
    /\ (kernel = "agent" /\ rerun.cell = "graph_invoke") =>
          ShowsFirstGraphRun(rerun.did)

\* the cell that compiles the second builder binds builder and graph_builder
\* and no other name
BindsGraphBuilder ==
    RanCell("build_tool_graph") =>
        /\ ns'["graph_builder"] = CompiledStateGraph("graph_builder")
        /\ \A name \in Names \ {"builder", "graph_builder"} : ns'[name] = ns[name]

\* graph.invoke, run after the tool graph is built, runs the first graph
LaterInvoke ==
    ("build_tool_graph" \in AgentCellsRun /\ RanCell("graph_invoke")) =>
        /\ ShowsFirstGraphRun(rerun'.did)
        /\ ns'["messages"].t = "state"
        /\ Len(ns'["messages"].messages) = 2

\* C15: compiling the second builder binds graph_builder and leaves graph
\* as it was, the first compiled graph (START -> llm_tool -> END); so the
\* diagram displayed after the tool graph is built is that of the first
\* graph, without the tools node, and a later graph.invoke runs the first
\* graph, in which no tool answers the reply's tool call.
C15_GraphStaysFirstGraph ==
    /\ []GraphIsFirstGraph
    /\ [][BindsGraphBuilder]_vars
    /\ [][LaterInvoke]_vars

C15_Witness ==
    /\ kernel = "agent"
    /\ pc = Len(AgentCells)
    /\ first["display_graph"].shown = FirstDiagram
    /\ ns["graph_builder"] = CompiledStateGraph("graph_builder")
    /\ rerun.cell = "graph_invoke"
    /\ reruns = 1
    /\ Len(rerun.did.shown.ms) = 2

(***************************************************************************)
(* try: user = UserProfile(..) except ValueError as e: print(e)            *)
(***************************************************************************)
\* what the run of cell c made in this step did
DidNow(c) == IF pc' = pc + 1 THEN first'[c] ELSE rerun'.did

ConstructionFails == UserProfile(notebook_profile).status # "ok"
ErrorReport == [t |-> "errors", errors |-> UserProfile(notebook_profile).errors]
Alice == User(notebook_user).instance

\* a run of the cell in which the construction fails raises nothing, leaves
\* user and every name but UserProfile as they were, and prints the report
CaughtAndPrinted ==
    (RanCell("UserProfile") /\ ConstructionFails) =>
        /\ DidNow("UserProfile").raised = ""
        /\ DidNow("UserProfile").shown = ErrorReport
        /\ ErrorReport.errors # <<>>
        /\ ns'["user"] = ns["user"]
        /\ \A name \in Names \ {"UserProfile"} : ns'[name] = ns[name]
        /\ fresh' = fresh

\* once the cell has run, user is still the User instance for Alice
UserKept ==
    (kernel = "pydantic" /\ pc >= 12) =>
        /\ ns["user"] = Alice
        /\ ns["user"].t = "User"
        /\ ns["user"].f.name = PyStr(lit_alice)
        /\ first["UserProfile"] = [shown |-> ErrorReport, raised |-> ""]
        /\ rerun.cell = "UserProfile" => rerun.did = first["UserProfile"]

\* C16: when the construction of UserProfile fails inside the try block, the
\* exception is caught by the except ValueError handler and does not leave
\* the cell, user is not assigned and keeps the value it had, the User
\* instance for Alice, and the only effect is that the error report is
\* printed, once.
C16_FailureCaughtUserKept ==
    /\ []UserKept
    /\ [][CaughtAndPrinted]_vars

C16_Witness ==
    /\ kernel = "pydantic"
    /\ pc >= 12
    /\ ConstructionFails
    /\ rerun.cell = "UserProfile"
    /\ rerun.did.raised = ""
    /\ Len(rerun.did.shown.errors) = 4
    /\ ns["user"] = Alice

====
